---- MODULE Spec2Model ----
(***************************************************************************)
(* Job-Application-Tracker: the App component of src/src/JobTracker.jsx as *)
(* a state machine. The React state of App, its two effects, its three     *)
(* CRUD handlers and the add form are the program; the identity provider   *)
(* (firebase/auth) and the document store (firebase/firestore) are the     *)
(* environment the program calls and is called back by.                    *)
(***************************************************************************)
EXTENDS Integers, Sequences, FiniteSets, TLC

(* ---------------------------------------------------------------- bounds *)
\* clock ticks run 0..MaxClock
MaxClock == 1
\* documents the store creates for this session (ids are never reused)
MaxDocs == 1
\* store writes in flight at once
MaxPending == 1
\* documents the user's collection holds before the session starts
MaxLegacy == 3

(* ------------------------------------------------------------- constants *)
\* two clock ticks make a calendar day: a Timestamp is finer than a date
TicksPerDay == 2

NULL == "null"

STATUS_OPTIONS ==
  << [value |-> "Applied",      color |-> "bg-blue-100 text-blue-800"],
     [value |-> "Interviewing", color |-> "bg-purple-100 text-purple-800"],
     [value |-> "Offer",        color |-> "bg-green-100 text-green-800"],
     [value |-> "Rejected",     color |-> "bg-red-100 text-red-800"],
     [value |-> "Wishlist",     color |-> "bg-yellow-100 text-yellow-800"] >>

StatusValues == { STATUS_OPTIONS[i].value : i \in 1..Len(STATUS_OPTIONS) }

\* (mutant of getStatusColor) a lookup without the default
getStatusColor_strict(status) ==
  IF \E i \in 1..Len(STATUS_OPTIONS) : STATUS_OPTIONS[i].value = status
    THEN STATUS_OPTIONS[CHOOSE i \in 1..Len(STATUS_OPTIONS) :
                          STATUS_OPTIONS[i].value = status].color
    ELSE NULL

\* getStatusColor: find(...)?.color || default
getStatusColor(status) ==
  IF \E i \in 1..Len(STATUS_OPTIONS) : STATUS_OPTIONS[i].value = status
    THEN STATUS_OPTIONS[CHOOSE i \in 1..Len(STATUS_OPTIONS) :
                          /\ STATUS_OPTIONS[i].value = status
                          /\ \A j \in 1..(i-1) : STATUS_OPTIONS[j].value # status].color
    ELSE "bg-gray-100 text-gray-800"

\* the uid the identity provider issues on a successful sign-in
ProviderUid == "u1"
\* crypto.randomUUID(): the n-th call returns a value no earlier call returned
UuidPool == << "r1", "r2" >>
randomUUID(n) == UuidPool[n]
UserIds == { ProviderUid } \cup { UuidPool[i] : i \in 1..Len(UuidPool) }

\* `artifacts/${appId}/users/${userId}/jobApplications`
collectionPath(uid) == << "artifacts", "appId", "users", uid, "jobApplications" >>
Paths == { collectionPath(u) : u \in UserIds }

(* ----------------------------------------------------------------- dates *)
\* A stored appliedDate is a Firestore Timestamp (kind "ts", v = clock tick) or,
\* in documents this program did not write, text (kind "str"): v >= 0 is the
\* ISO text "YYYY-MM-DD" of calendar day v, v = -1 is text no Date parses.
Ts(t)       == [kind |-> "ts",  v |-> t]
DateStr(d)  == [kind |-> "str", v |-> d]
Unparsable  == [kind |-> "str", v |-> -1]

\* JS numbers with NaN
Num(n) == [nan |-> FALSE, n |-> n]
NaN    == [nan |-> TRUE,  n |-> 0]
Minus(a, b) == IF a.nan \/ b.nan THEN NaN ELSE Num(a.n - b.n)

\* new Date(x).getTime() for the text of a date input or a converted field:
\* UTC midnight of the day, NaN ("Invalid Date") for anything else
NewDate(x) == IF x.kind = "str" /\ x.v >= 0 THEN Num(x.v * TicksPerDay) ELSE NaN

\* timestamp.toDate().toISOString().substring(0, 10): the UTC calendar day
toISODate(t) == DateStr(t \div TicksPerDay)

\* Timestamp.fromDate(new Date(text)) of handleAddJob
TimestampFromDateText(x) ==
  IF NewDate(x).nan THEN [kind |-> "ts", v |-> -1] ELSE Ts(NewDate(x).n)

\* line 106: appliedDate?.toDate ? toDate().toISOString().substring(0,10) : appliedDate
ConvertAppliedDate(a) == IF a.kind = "ts" THEN toISODate(a.v) ELSE a

(* ------------------------------------------------------------------ sort *)
\* line 109: (a, b) => new Date(b.appliedDate) - new Date(a.appliedDate)
comparefn(a, b) == Minus(NewDate(b.appliedDate), NewDate(a.appliedDate))

\* Array.prototype.sort calls the comparator through SortCompare: a NaN result
\* counts as +0
SortCompare(a, b) == LET v == comparefn(a, b) IN IF v.nan THEN 0 ELSE v.n

Sign(n) == IF n < 0 THEN -1 ELSE IF n > 0 THEN 1 ELSE 0

\* ECMAScript's "consistent comparison function" for the elements of list
ConsistentComparator(list) ==
  LET I == 1..Len(list)
      c(i, j) == Sign(SortCompare(list[i], list[j]))
  IN /\ \A i \in I : c(i, i) = 0
     /\ \A i, j \in I : c(i, j) = -c(j, i)
     /\ \A i, j, k \in I :
          /\ (c(i, j) = 0 /\ c(j, k) = 0) => c(i, k) = 0
          /\ (c(i, j) < 0 /\ c(j, k) < 0) => c(i, k) < 0
          /\ (c(i, j) > 0 /\ c(j, k) > 0) => c(i, k) > 0

\* the orders of 1..n
Orders(n) == { p \in [1..n -> 1..n] : \A i, j \in 1..n : i # j => p[i] # p[j] }

Permute(list, p) == [i \in 1..Len(list) |-> list[p[i]]]

\* the stable order: ascending under SortCompare, equal elements in list order
StableOrder(list) ==
  CHOOSE p \in Orders(Len(list)) :
    \A i, j \in 1..Len(list) : i < j =>
      LET v == SortCompare(list[p[i]], list[p[j]])
      IN v < 0 \/ (v = 0 /\ p[i] < p[j])

\* jobList.sort(comparefn): every array the language allows as the result. With
\* a consistent comparator the sort is stable and the result is unique; with an
\* inconsistent one the order is implementation-defined.
ArraySort(list) ==
  IF ConsistentComparator(list)
    THEN { Permute(list, StableOrder(list)) }
    ELSE { Permute(list, p) : p \in Orders(Len(list)) }

\* lines 102-107: one list entry per snapshot document
jobOfDoc(d) == [d EXCEPT !.appliedDate = ConvertAppliedDate(d.appliedDate)]

jobListOf(docs) == [i \in 1..Len(docs) |-> jobOfDoc(docs[i])]

(* ----------------------------------------------------------------- state *)
VARIABLES
  firebaseConfig,    \* whether __firebase_config is defined (line 9)
  phase,             \* "rendered": first render done, effects not yet run;
                     \* "mounted"; "unmounted"
  db, auth, userId, jobs, loading, showAddModal, newJob,   \* useState, lines 29-45
  subDeps,           \* [db, userId] the subscription effect last ran with
  clock,             \* the wall clock, in ticks
  signIn,            \* the sign-in promise: "none", "pending", "resolved", "rejected"
  currentUser,       \* the identity provider's signed-in user, or NULL
  authListener,      \* the onAuthStateChanged listener: state, unsubscribe calls
  authPending,       \* the provider owes the listener a call with currentUser
  uuids,             \* crypto.randomUUID() calls so far
  subs,              \* every onSnapshot subscription opened, in order
  store,             \* the document store: collection path's uid -> documents
  created,           \* documents the store created for addDoc so far
  pending,           \* store writes in flight (awaited promises)
  last               \* the handler or callback that ran in the last step

appVars  == << db, auth, userId, jobs, loading, showAddModal, newJob >>
envVars  == << signIn, currentUser, authListener, authPending, uuids,
               subs, store, created, pending >>
vars == << firebaseConfig, phase, db, auth, userId, jobs, loading,
           showAddModal, newJob, subDeps, clock, signIn, currentUser, authListener,
           authPending, uuids, subs, store, created, pending, last >>

\* the record of a step: which handler or callback ran, and how it went
Act(op, val) == [op |-> op, val |-> val]
\* a step no property looks back at
Quiet == Act("", "")
\* a call on the store
Call(fn, uid, id, data) == [fn |-> fn, uid |-> uid, id |-> id, data |-> data]

\* new Date().toISOString().substring(0, 10)
today == toISODate(clock)

\* lines 37-45 and 139-147: the empty form
emptyForm ==
  [company |-> "", title |-> "", status |-> "Applied", appliedDate |-> today,
   notes |-> "", postingLink |-> "", documentsUsed |-> ""]

\* A document the collection holds before the session starts, written by
\* another client of the account: its appliedDate may be a Timestamp or text,
\* its status is outside the enumeration
legacyDoc(id, date) ==
  [id |-> id, company |-> "Hooli", title |-> "QA", status |-> "Archived",
   appliedDate |-> date, createdAt |-> Ts(0),
   notes |-> "", postingLink |-> "", documentsUsed |-> ""]

\* midnight of day 0, late in day 1, text that is no date, the text of day 1
LegacyDates == { Ts(0), Ts(2 * TicksPerDay - 1), Unparsable, DateStr(1) }

\* the collections of up to MaxLegacy such documents, in id order
InitialCollections ==
  UNION { { [i \in 1..n |-> legacyDoc(i, dates[i])] : dates \in [1..n -> LegacyDates] }
          : n \in 0..MaxLegacy }

\* the state after the first render, over a collection out of colls
InitWith(colls) ==
  /\ firebaseConfig \in BOOLEAN
  /\ phase = "rendered"
  /\ db = NULL /\ auth = NULL /\ userId = NULL
  /\ jobs = << >>
  /\ loading = TRUE
  /\ showAddModal = FALSE
  /\ clock = 0
  /\ newJob = emptyForm
  /\ subDeps = << NULL, NULL >>
  /\ signIn = "none"
  /\ currentUser = NULL
  /\ authListener = [state |-> "none", unsubs |-> 0]
  /\ authPending = FALSE
  /\ uuids = 0
  /\ subs = << >>
  /\ \E c \in colls :
       store = [u \in UserIds |-> IF u = ProviderUid THEN c ELSE << >>]
  /\ created = 0
  /\ pending = << >>
  /\ last = Quiet

Init == InitWith(InitialCollections)

(* --------------------------------------------------------------- effects *)
\* (mutant of InitEffect) an effect that connects without testing firebaseConfig
InitEffect_unconfigured ==
  /\ phase = "rendered"
  /\ phase' = "mounted"
  /\ subDeps' = << db, userId >>
  /\ auth' = "auth"
  /\ db' = "db"
  /\ signIn' = "pending"
  /\ authListener' = [state |-> "open", unsubs |-> 0]
  /\ authPending' = TRUE
  /\ last' = Quiet
  /\ UNCHANGED << firebaseConfig, userId, jobs, loading, showAddModal, newJob,
                  clock, currentUser, uuids, subs, store, created, pending >>

\* lines 48-89, run once after the first render. The subscription effect runs
\* in the same pass with the state of that render (db = null) and returns at
\* line 94.
InitEffect ==
  /\ phase = "rendered"
  /\ phase' = "mounted"
  /\ subDeps' = << db, userId >>
  /\ IF ~firebaseConfig
       THEN /\ loading' = FALSE
            /\ UNCHANGED << db, auth, signIn, authListener, authPending >>
       ELSE /\ auth' = "auth"
            /\ db' = "db"
            /\ signIn' = "pending"
            /\ authListener' = [state |-> "open", unsubs |-> 0]
            /\ authPending' = TRUE
            /\ UNCHANGED loading
  /\ last' = Quiet
  /\ UNCHANGED << firebaseConfig, userId, jobs, showAddModal, newJob,
                  clock, currentUser, uuids, subs, store, created, pending >>

\* lines 64-74: the awaited sign-in resolves; the provider has a user
SignInResolve ==
  /\ phase = "mounted"
  /\ signIn = "pending"
  /\ signIn' = "resolved"
  /\ currentUser' = ProviderUid
  /\ authPending' = (authListener.state = "open")
  /\ last' = Quiet
  /\ UNCHANGED << firebaseConfig, phase, appVars, subDeps, clock,
                  authListener, uuids, subs, store, created, pending >>

\* lines 71-73: the awaited sign-in rejects; the catch logs it
SignInReject ==
  /\ phase = "mounted"
  /\ signIn = "pending"
  /\ signIn' = "rejected"
  /\ last' = Quiet
  /\ UNCHANGED << firebaseConfig, phase, appVars, subDeps, clock,
                  currentUser, authListener, authPending, uuids, subs, store,
                  created, pending >>

\* the provider drops its user (token revoked, account disabled or deleted)
ProviderSignOut ==
  /\ phase = "mounted"
  /\ currentUser # NULL
  /\ currentUser' = NULL
  /\ authPending' = (authListener.state = "open")
  /\ last' = Quiet
  /\ UNCHANGED << firebaseConfig, phase, appVars, subDeps, clock,
                  signIn, authListener, uuids, subs, store, created, pending >>

\* lines 78-86: the listener is called with the provider's user: once after it
\* is registered, and after every change of the user
onAuthStateChanged ==
  /\ authListener.state = "open"
  /\ authPending
  /\ authPending' = FALSE
  /\ IF currentUser # NULL
       THEN /\ userId' = currentUser
            /\ UNCHANGED uuids
       ELSE /\ uuids' = uuids + 1
            /\ userId' = randomUUID(uuids + 1)
  /\ last' = Quiet
  /\ UNCHANGED << firebaseConfig, phase, db, auth, jobs, loading,
                  showAddModal, newJob, subDeps, clock, signIn, currentUser,
                  authListener, subs, store, created, pending >>

\* the subscription the last run of the subscription effect opened, 0 if none:
\* the one its cleanup (line 117) closes
effectSub == IF subDeps[1] # NULL /\ subDeps[2] # NULL THEN Len(subs) ELSE 0

\* (mutant of unsubscribe) a cleanup that leaves the listener attached
unsubscribe_leak(ss, i) == ss

\* line 117: unsubscribe() of subscription i; the client calls back no more
unsubscribe(ss, i) ==
  IF i = 0 THEN ss
  ELSE [ss EXCEPT ![i] = [@ EXCEPT !.open = FALSE, !.unsubs = @ + 1,
                                   !.synced = TRUE, !.errored = FALSE]]

\* (mutant of onSnapshot) a subscription whose path keeps the userId of the
\* first subscription of the session
onSnapshot_firstPath(ss, uid) ==
  Append(ss, [uid |-> IF ss = << >> THEN uid ELSE ss[1].uid, open |-> TRUE,
              unsubs |-> 0, errored |-> FALSE, synced |-> FALSE])

\* lines 97-115: onSnapshot(query(collection(db, path)), next, error)
onSnapshot(ss, uid) ==
  Append(ss, [uid |-> uid, open |-> TRUE, unsubs |-> 0, errored |-> FALSE,
              synced |-> FALSE])

\* (mutant of SubscriptionEffect) an effect that shows the loading screen
\* again while it waits for the first snapshot of a new subscription
SubscriptionEffect_reloading ==
  /\ phase = "mounted"
  /\ << db, userId >> # subDeps
  /\ subDeps' = << db, userId >>
  /\ IF db = NULL \/ userId = NULL
       THEN subs' = unsubscribe(subs, effectSub) /\ UNCHANGED loading
       ELSE subs' = onSnapshot(unsubscribe(subs, effectSub), userId) /\ loading' = TRUE
  /\ last' = Quiet
  /\ UNCHANGED << firebaseConfig, phase, db, auth, userId, jobs, showAddModal,
                  newJob, clock, signIn, currentUser, authListener, authPending,
                  uuids, store, created, pending >>

\* lines 92-118: after a render in which db or userId changed, the cleanup of
\* the previous run, then the body
SubscriptionEffect ==
  /\ phase = "mounted"
  /\ << db, userId >> # subDeps
  /\ subDeps' = << db, userId >>
  /\ IF db = NULL \/ userId = NULL
       THEN subs' = unsubscribe(subs, effectSub)
       ELSE subs' = onSnapshot(unsubscribe(subs, effectSub), userId)
  /\ last' = Quiet
  /\ UNCHANGED << firebaseConfig, phase, appVars, clock, signIn,
                  currentUser, authListener, authPending, uuids, store,
                  created, pending >>

\* lines 88 and 117: unmount runs the cleanup of both effects
Unmount ==
  /\ phase = "mounted"
  /\ phase' = "unmounted"
  /\ authListener' = IF authListener.state = "open"
                       THEN [state |-> "closed", unsubs |-> authListener.unsubs + 1]
                       ELSE authListener
  /\ authPending' = FALSE
  /\ subs' = unsubscribe(subs, effectSub)
  /\ last' = Quiet
  /\ UNCHANGED << firebaseConfig, appVars, subDeps, clock, signIn,
                  currentUser, uuids, store, created, pending >>

(* ------------------------------------------------------ the store client *)
\* (mutant of snapshotNext) an incremental listener: it adds the snapshot's
\* documents to the entries it already has and never drops one
snapshotNext_incremental(i) ==
  /\ phase = "mounted"
  /\ subs[i].open /\ ~subs[i].errored /\ ~subs[i].synced
  /\ LET docs == store[subs[i].uid]
         kept == SelectSeq(jobs, LAMBDA j : \A k \in 1..Len(docs) : docs[k].id # j.id)
     IN /\ \E jobList \in ArraySort(jobListOf(docs) \o kept) : jobs' = jobList
        /\ last' = Act("snapshotNext", "")
  /\ loading' = FALSE
  /\ subs' = [subs EXCEPT ![i] = [@ EXCEPT !.synced = TRUE]]
  /\ UNCHANGED << firebaseConfig, phase, db, auth, userId,
                  showAddModal, newJob, subDeps, clock, signIn, currentUser,
                  authListener, authPending, uuids, store, created, pending >>

\* lines 101-111: the next-callback of subscription i, called with the
\* collection as the store has it when the listener owes a snapshot: the first
\* one after onSnapshot, one more after every change of the collection
snapshotNext(i) ==
  /\ phase = "mounted"
  /\ subs[i].open /\ ~subs[i].errored /\ ~subs[i].synced
  /\ LET docs == store[subs[i].uid]
     IN /\ \E jobList \in ArraySort(jobListOf(docs)) : jobs' = jobList
        /\ last' = Act("snapshotNext", "")
  /\ loading' = FALSE
  /\ subs' = [subs EXCEPT ![i] = [@ EXCEPT !.synced = TRUE]]
  /\ UNCHANGED << firebaseConfig, phase, db, auth, userId,
                  showAddModal, newJob, subDeps, clock, signIn, currentUser,
                  authListener, authPending, uuids, store, created, pending >>

\* (mutant of snapshotError) an error-callback that empties the list
snapshotError_clearing(i) ==
  /\ phase = "mounted"
  /\ subs[i].open /\ ~subs[i].errored
  /\ subs' = [subs EXCEPT ![i] = [@ EXCEPT !.errored = TRUE, !.synced = TRUE]]
  /\ loading' = FALSE
  /\ jobs' = << >>
  /\ last' = Quiet
  /\ UNCHANGED << firebaseConfig, phase, db, auth, userId,
                  showAddModal, newJob, subDeps, clock, signIn, currentUser,
                  authListener, authPending, uuids, store, created, pending >>

\* lines 112-115: the error-callback of subscription i; the store client ends
\* the listener and delivers nothing more to it
snapshotError(i) ==
  /\ phase = "mounted"
  /\ subs[i].open /\ ~subs[i].errored
  /\ subs' = [subs EXCEPT ![i] = [@ EXCEPT !.errored = TRUE, !.synced = TRUE]]
  /\ loading' = FALSE
  /\ last' = Quiet
  /\ UNCHANGED << firebaseConfig, phase, db, auth, userId, jobs,
                  showAddModal, newJob, subDeps, clock, signIn, currentUser,
                  authListener, authPending, uuids, store, created, pending >>

\* the wall clock advances
Tick ==
  /\ phase = "mounted"
  /\ clock < MaxClock
  /\ clock' = clock + 1
  /\ last' = Quiet
  /\ UNCHANGED << firebaseConfig, phase, appVars, subDeps, envVars >>

(* ---------------------------------------------------------------- the UI *)
\* lines 383-389: while loading, only the loading screen is rendered
uiShown == phase = "mounted" /\ ~loading

\* the values a text input takes
TextInputs == { "", "Acme" }
\* the values the date input takes: "" or the ISO text of a day
DateInputs == { Unparsable, DateStr(0), DateStr(1) }
\* lines 234-236 and 326-330: both status selects offer STATUS_OPTIONS; the
\* options the user picks
PickedOptions == { STATUS_OPTIONS[1].value, STATUS_OPTIONS[3].value }
\* e.target.value of a select: the value of the selected option, "" with none
SelectValues == { STATUS_OPTIONS[3].value, "" }

FormFields == { "company", "title", "status", "appliedDate" }

FieldInputs(field) ==
  CASE field = "company"     -> TextInputs
    [] field = "title"       -> TextInputs
    [] field = "status"      -> PickedOptions
    [] field = "appliedDate" -> DateInputs

\* lines 413-418: the "Add New Job" button
openAddModal ==
  /\ uiShown /\ ~showAddModal
  /\ showAddModal' = TRUE
  /\ last' = Quiet
  /\ UNCHANGED << firebaseConfig, phase, db, auth, userId, jobs,
                  loading, newJob, subDeps, clock, envVars >>

\* lines 190-195: the modal's close button
closeAddModal ==
  /\ uiShown /\ showAddModal
  /\ showAddModal' = FALSE
  /\ last' = Quiet
  /\ UNCHANGED << firebaseConfig, phase, db, auth, userId, jobs,
                  loading, newJob, subDeps, clock, envVars >>

\* lines 206, 218, 231, 245: onChange of a form field, setNewJob({...newJob, f: v})
onChangeField(field, value) ==
  /\ uiShown /\ showAddModal
  /\ newJob[field] # value
  /\ newJob' = [newJob EXCEPT ![field] = value]
  /\ last' = Quiet
  /\ UNCHANGED << firebaseConfig, phase, db, auth, userId, jobs,
                  loading, showAddModal, subDeps, clock, envVars >>

\* line 305: a card is rendered and looks up the style of its status
JobCard(k) ==
  /\ uiShown
  /\ last' = [op |-> "getStatusColor", status |-> jobs[k].status,
              val |-> getStatusColor(jobs[k].status)]
  /\ UNCHANGED << firebaseConfig, phase, appVars, subDeps, clock, envVars >>

(* ------------------------------------------------------------------ CRUD *)
\* lines 124, 155, 171: !db || !userId
notReady == db = NULL \/ userId = NULL

\* (mutant of formValid) a form whose company and title inputs are not required
formValid_dateOnly ==
  newJob.appliedDate # Unparsable

\* lines 207, 219, 246: the required inputs; the browser submits the form
\* (line 197) only when none of them is empty
formValid ==
  /\ newJob.company # ""
  /\ newJob.title # ""
  /\ newJob.appliedDate # Unparsable

\* (mutant of jobToAdd) a payload stamped with the time the session started
jobToAdd_stampedAtStart ==
  [company |-> newJob.company, title |-> newJob.title, status |-> newJob.status,
   notes |-> newJob.notes, postingLink |-> newJob.postingLink,
   documentsUsed |-> newJob.documentsUsed,
   appliedDate |-> TimestampFromDateText(newJob.appliedDate),
   createdAt |-> Ts(0)]

\* lines 129-133
jobToAdd ==
  [company |-> newJob.company, title |-> newJob.title, status |-> newJob.status,
   notes |-> newJob.notes, postingLink |-> newJob.postingLink,
   documentsUsed |-> newJob.documentsUsed,
   appliedDate |-> TimestampFromDateText(newJob.appliedDate),
   createdAt |-> Ts(clock)]

\* room for one more write, and for one more document if it is an add
canWrite(fn) ==
  /\ Len(pending) < MaxPending
  /\ fn = "addDoc" =>
       created + Cardinality({ k \in 1..Len(pending) : pending[k].fn = "addDoc" })
         < MaxDocs

\* (mutant of handleAddJob) a handler that gives up on a session that is not
\* ready by closing the modal and clearing the form
handleAddJob_dismissing ==
  /\ IF notReady
       THEN /\ last' = Act("handleAddJob", "not ready")
            /\ showAddModal' = FALSE
            /\ newJob' = emptyForm
            /\ UNCHANGED pending
       ELSE /\ canWrite("addDoc")
            /\ last' = Act("handleAddJob", "addDoc")
            /\ pending' = Append(pending, Call("addDoc", userId, 0, jobToAdd))
            /\ UNCHANGED << showAddModal, newJob >>
  /\ UNCHANGED << firebaseConfig, phase, db, auth, userId, jobs, loading,
                  subDeps, clock, signIn, currentUser, authListener, authPending,
                  uuids, subs, store, created >>

\* lines 122-137: handleAddJob up to the awaited addDoc
handleAddJob ==
  /\ IF notReady
       THEN /\ last' = Act("handleAddJob", "not ready")
            /\ UNCHANGED pending
       ELSE /\ canWrite("addDoc")
            /\ last' = Act("handleAddJob", "addDoc")
            /\ pending' = Append(pending, Call("addDoc", userId, 0, jobToAdd))
  /\ UNCHANGED << firebaseConfig, phase, appVars, subDeps, clock,
                  signIn, currentUser, authListener, authPending, uuids,
                  subs, store, created >>

\* lines 197 and 291-297: the "Save Application" button submits the form
submitForm ==
  /\ uiShown /\ showAddModal
  /\ IF formValid
       THEN handleAddJob
       ELSE /\ last' = Act("submitForm", "blocked")
            /\ UNCHANGED << firebaseConfig, phase, appVars, subDeps, clock,
                            envVars >>

\* (mutant of handleDeleteJob) a handler that takes the card off the list itself
handleDeleteJob_optimistic(id, confirmed) ==
  /\ IF notReady
       THEN /\ last' = Act("handleDeleteJob", "not ready")
            /\ UNCHANGED << pending, jobs >>
       ELSE IF ~confirmed
         THEN /\ last' = Act("handleDeleteJob", "declined")
              /\ UNCHANGED << pending, jobs >>
         ELSE /\ canWrite("deleteDoc")
              /\ last' = Act("handleDeleteJob", "confirmed")
              /\ pending' = Append(pending, Call("deleteDoc", userId, id, ""))
              /\ jobs' = SelectSeq(jobs, LAMBDA j : j.id # id)
  /\ UNCHANGED << firebaseConfig, phase, db, auth, userId, loading, showAddModal,
                  newJob, subDeps, clock, signIn, currentUser, authListener,
                  authPending, uuids, subs, store, created >>

\* (mutant of handleDeleteJob) a handler that deletes whatever window.confirm
\* returns
handleDeleteJob_unasked(id, confirmed) ==
  /\ IF notReady
       THEN /\ last' = Act("handleDeleteJob", "not ready")
            /\ UNCHANGED pending
       ELSE /\ canWrite("deleteDoc")
            /\ last' = Act("handleDeleteJob", IF confirmed THEN "confirmed" ELSE "declined")
            /\ pending' = Append(pending, Call("deleteDoc", userId, id, ""))
  /\ UNCHANGED << firebaseConfig, phase, appVars, subDeps, clock,
                  signIn, currentUser, authListener, authPending, uuids,
                  subs, store, created >>

\* lines 154-164: handleDeleteJob up to the awaited deleteDoc; confirmed is
\* what window.confirm returns when it is asked
handleDeleteJob(id, confirmed) ==
  /\ IF notReady
       THEN /\ last' = Act("handleDeleteJob", "not ready")
            /\ UNCHANGED pending
       ELSE IF ~confirmed
         THEN /\ last' = Act("handleDeleteJob", "declined")
              /\ UNCHANGED pending
         ELSE /\ canWrite("deleteDoc")
              /\ last' = Act("handleDeleteJob", "confirmed")
              /\ pending' = Append(pending, Call("deleteDoc", userId, id, ""))
  /\ UNCHANGED << firebaseConfig, phase, appVars, subDeps, clock,
                  signIn, currentUser, authListener, authPending, uuids,
                  subs, store, created >>

\* lines 372-377: the Delete button of the card of jobs[k]
clickDelete(k, confirmed) ==
  /\ uiShown
  /\ handleDeleteJob(jobs[k].id, confirmed)

\* (mutant of handleUpdateStatus) a handler whose update also writes notes
handleUpdateStatus_withNotes(jobId, newStatus) ==
  /\ IF notReady \/ newStatus = ""
       THEN /\ last' = Act("handleUpdateStatus", newStatus)
            /\ UNCHANGED pending
       ELSE /\ canWrite("updateDoc")
            /\ last' = Act("handleUpdateStatus", newStatus)
            /\ pending' = Append(pending,
                                 Call("updateDoc", userId, jobId,
                                      [status |-> newStatus, notes |-> ""]))
  /\ UNCHANGED << firebaseConfig, phase, appVars, subDeps, clock,
                  signIn, currentUser, authListener, authPending, uuids,
                  subs, store, created >>

\* (mutant of handleUpdateStatus) a handler without the !newStatus test
handleUpdateStatus_anyValue(jobId, newStatus) ==
  /\ IF notReady
       THEN /\ last' = Act("handleUpdateStatus", newStatus)
            /\ UNCHANGED pending
       ELSE /\ canWrite("updateDoc")
            /\ last' = Act("handleUpdateStatus", newStatus)
            /\ pending' = Append(pending,
                                 Call("updateDoc", userId, jobId, [status |-> newStatus]))
  /\ UNCHANGED << firebaseConfig, phase, appVars, subDeps, clock,
                  signIn, currentUser, authListener, authPending, uuids,
                  subs, store, created >>

\* lines 170-175: handleUpdateStatus up to the awaited updateDoc
handleUpdateStatus(jobId, newStatus) ==
  /\ IF notReady \/ newStatus = ""
       THEN /\ last' = Act("handleUpdateStatus", newStatus)
            /\ UNCHANGED pending
       ELSE /\ canWrite("updateDoc")
            /\ last' = Act("handleUpdateStatus", newStatus)
            /\ pending' = Append(pending,
                                 Call("updateDoc", userId, jobId, [status |-> newStatus]))
  /\ UNCHANGED << firebaseConfig, phase, appVars, subDeps, clock,
                  signIn, currentUser, authListener, authPending, uuids,
                  subs, store, created >>

\* lines 321-331: onChange of the status select of the card of jobs[k]
changeStatus(k, value) ==
  /\ uiShown
  /\ handleUpdateStatus(jobs[k].id, value)

(* ------------------------------------------------------ the store's side *)
\* the id the store gives the next document it creates: never one used before
newDocId == MaxLegacy + created + 1

docOf(id, data) ==
  [id |-> id, company |-> data.company, title |-> data.title, status |-> data.status,
   appliedDate |-> data.appliedDate, createdAt |-> data.createdAt, notes |-> data.notes,
   postingLink |-> data.postingLink, documentsUsed |-> data.documentsUsed]

InsertAt(seq, p, x) == SubSeq(seq, 1, p) \o << x >> \o SubSeq(seq, p + 1, Len(seq))

hasDoc(uid, id) == \E k \in 1..Len(store[uid]) : store[uid][k].id = id

\* the collections a committed write w can leave: addDoc creates a document
\* under a fresh id (a query without orderBy lists documents by id, and the
\* ids are random, so the new one may come anywhere); updateDoc merges its
\* fields into the document; deleteDoc removes it
committed(w) ==
  LET coll == store[w.uid]
  IN CASE w.fn = "addDoc" ->
            { InsertAt(coll, p, docOf(newDocId, w.data)) : p \in 0..Len(coll) }
       [] w.fn = "updateDoc" ->
            { [k \in 1..Len(coll) |->
                 IF coll[k].id = w.id THEN [coll[k] EXCEPT !.status = w.data.status]
                                      ELSE coll[k]] }
       [] w.fn = "deleteDoc" ->
            { SelectSeq(coll, LAMBDA d : d.id # w.id) }

\* (mutant of stale) a store that tells no listener of a change
stale_silent(ss, uid) == ss

\* subscriptions on a collection that changed owe their listener a snapshot
stale(ss, uid) ==
  [i \in 1..Len(ss) |-> IF ss[i].uid = uid /\ ss[i].open /\ ~ss[i].errored
                          THEN [ss[i] EXCEPT !.synced = FALSE] ELSE ss[i]]

\* the store commits the oldest write in flight and its promise resolves (a
\* promise settled after the unmount finds no component to update):
\* lines 138-148 after addDoc, nothing more after updateDoc and deleteDoc.
\* updateDoc of a document that does not exist cannot commit.
WriteResolve ==
  /\ phase = "mounted"
  /\ pending # << >>
  /\ LET w == Head(pending)
     IN /\ w.fn = "updateDoc" => hasDoc(w.uid, w.id)
        /\ \E coll \in committed(w) :
             /\ store' = [store EXCEPT ![w.uid] = coll]
             /\ subs' = IF coll # store[w.uid] THEN stale(subs, w.uid) ELSE subs
        /\ created' = IF w.fn = "addDoc" THEN created + 1 ELSE created
        /\ IF w.fn = "addDoc"
             THEN /\ newJob' = emptyForm
                  /\ showAddModal' = FALSE
             ELSE UNCHANGED << newJob, showAddModal >>
        /\ last' = Quiet
  /\ pending' = Tail(pending)
  /\ UNCHANGED << firebaseConfig, phase, db, auth, userId, jobs,
                  loading, subDeps, clock, signIn, currentUser, authListener,
                  authPending, uuids >>

\* (mutant of WriteReject) a catch that issues the refused call again
WriteReject_retrying ==
  /\ phase = "mounted"
  /\ pending # << >>
  /\ pending' = Append(Tail(pending), Head(pending))
  /\ last' = Act("catch", Head(pending).fn)
  /\ UNCHANGED << firebaseConfig, phase, appVars, subDeps, clock,
                  signIn, currentUser, authListener, authPending, uuids,
                  subs, store, created >>

\* the store refuses the oldest write in flight and its promise rejects:
\* the catch of lines 149-151, 165-167, 176-178 logs the error
WriteReject ==
  /\ phase = "mounted"
  /\ pending # << >>
  /\ pending' = Tail(pending)
  /\ last' = Act("catch", Head(pending).fn)
  /\ UNCHANGED << firebaseConfig, phase, appVars, subDeps, clock,
                  signIn, currentUser, authListener, authPending, uuids,
                  subs, store, created >>

(* --------------------------------------------------------- specification *)
\* Every step of the program and of its environment
Next ==
  \/ InitEffect
  \/ SignInResolve
  \/ SignInReject
  \/ ProviderSignOut
  \/ onAuthStateChanged
  \/ SubscriptionEffect
  \/ Unmount
  \/ \E i \in 1..Len(subs) : snapshotNext(i)
  \/ \E i \in 1..Len(subs) : snapshotError(i)
  \/ Tick
  \/ openAddModal
  \/ closeAddModal
  \/ \E f \in FormFields : \E v \in FieldInputs(f) : onChangeField(f, v)
  \/ submitForm
  \/ \E k \in 1..Len(jobs) : \E c \in BOOLEAN : clickDelete(k, c)
  \/ \E k \in 1..Len(jobs) : \E v \in SelectValues : changeStatus(k, v)
  \/ WriteResolve
  \/ WriteReject

Spec == Init /\ [][Next]_vars

\* The session's life: identity, subscriptions, snapshots, the cards' Delete and
\* status controls and the unmount, over a collection of at most two documents
\* with Timestamp dates; the form is submitted as it stands.
InitLife ==
  /\ Init
  /\ Len(store[ProviderUid]) <= 2
  /\ \A k \in 1..Len(store[ProviderUid]) : store[ProviderUid][k].appliedDate.kind = "ts"

NextLife ==
  \/ InitEffect
  \/ SignInResolve
  \/ SignInReject
  \/ ProviderSignOut
  \/ onAuthStateChanged
  \/ SubscriptionEffect
  \/ Unmount
  \/ \E i \in 1..Len(subs) : snapshotNext(i)
  \/ \E i \in 1..Len(subs) : snapshotError(i)
  \/ openAddModal
  \/ closeAddModal
  \/ submitForm
  \/ \E k \in 1..Len(jobs) : \E c \in BOOLEAN : clickDelete(k, c)
  \/ \E k \in 1..Len(jobs) : \E v \in SelectValues : changeStatus(k, v)
  \/ WriteResolve
  \/ WriteReject

SpecLife == InitLife /\ [][NextLife]_vars

\* The add form: the user edits and submits it while the clock runs, over a
\* collection that starts empty and a sign-in that succeeds.
InitAdd == Init /\ store[ProviderUid] = << >>

NextAdd ==
  \/ InitEffect
  \/ SignInResolve
  \/ onAuthStateChanged
  \/ SubscriptionEffect
  \/ \E i \in 1..Len(subs) : snapshotNext(i)
  \/ Tick
  \/ openAddModal
  \/ closeAddModal
  \/ \E f \in FormFields : \E v \in FieldInputs(f) : onChangeField(f, v)
  \/ submitForm
  \/ WriteResolve
  \/ WriteReject

SpecAdd == InitAdd /\ [][NextAdd]_vars

\* The mirror: the snapshots of every collection of up to MaxLegacy documents.
NextMirror ==
  \/ InitEffect
  \/ SignInResolve
  \/ onAuthStateChanged
  \/ SubscriptionEffect
  \/ \E i \in 1..Len(subs) : snapshotNext(i)

SpecMirror == Init /\ [][NextMirror]_vars

\* The three writes together: the user fills the required fields and submits,
\* and uses the cards' controls, over a collection that starts empty.
NextCrud ==
  \/ InitEffect
  \/ SignInResolve
  \/ onAuthStateChanged
  \/ SubscriptionEffect
  \/ \E i \in 1..Len(subs) : snapshotNext(i)
  \/ openAddModal
  \/ \E f \in { "company", "title" } : onChangeField(f, "Acme")
  \/ submitForm
  \/ \E k \in 1..Len(jobs) : \E c \in BOOLEAN : clickDelete(k, c)
  \/ \E k \in 1..Len(jobs) : \E v \in SelectValues : changeStatus(k, v)
  \/ WriteResolve
  \/ WriteReject

SpecCrud == InitAdd /\ [][NextCrud]_vars

\* The cards: the collections of at most two documents whose status is one of
\* the five options, another text, the empty text or absent, listed and
\* rendered.
StatusInputs == StatusValues \cup { "Archived", "", NULL }

ColorCollections ==
  UNION { { [i \in 1..n |-> [legacyDoc(i, Ts(0)) EXCEPT !.status = st[i]]]
              : st \in [1..n -> StatusInputs] }
          : n \in 0..2 }

InitColor == InitWith(ColorCollections)

NextColor ==
  \/ InitEffect
  \/ SignInResolve
  \/ onAuthStateChanged
  \/ SubscriptionEffect
  \/ \E i \in 1..Len(subs) : snapshotNext(i)
  \/ \E k \in 1..Len(jobs) : JobCard(k)

SpecColor == InitColor /\ [][NextColor]_vars

\* The mirror under fair delivery: a successful sign-in, confirmed deletes and
\* status changes that commit, subscriptions that may fail, over a collection
\* of at most two documents with Timestamp dates. The store client delivers a snapshot it owes to a live listener, and React runs
\* an effect whose dependencies changed.
NextSync ==
  \/ InitEffect
  \/ SignInResolve
  \/ onAuthStateChanged
  \/ SubscriptionEffect
  \/ \E i \in 1..Len(subs) : snapshotNext(i)
  \/ \E i \in 1..Len(subs) : snapshotError(i)
  \/ \E k \in 1..Len(jobs) : clickDelete(k, TRUE)
  \/ \E k \in 1..Len(jobs) : changeStatus(k, STATUS_OPTIONS[3].value)
  \/ WriteResolve

SpecSync ==
  /\ InitLife
  /\ [][NextSync]_vars
  /\ WF_vars(SubscriptionEffect)
  /\ WF_vars(\E i \in 1..Len(subs) : snapshotNext(i))

(* ---------------------------------------------------------------- claims *)
\* the step is the next-callback of subscription i
SnapshotStep(i) ==
  /\ i \in 1..Len(subs)
  /\ last'.op = "snapshotNext"
  /\ subs[i].open /\ ~subs[i].synced /\ subs'[i].synced

Ids(list) == { list[k].id : k \in 1..Len(list) }

\* calendar day of a list entry's appliedDate, -1 when no Date parses it
DayOf(job) == IF NewDate(job.appliedDate).nan THEN -1 ELSE job.appliedDate.v

\* list is docs in date order: the entries of docs, those with a parsable date
\* in descending date order, and two entries whose dates are equal or both
\* unparsable in the order docs has them
InDateOrder(list, docs) ==
  \E p \in Orders(Len(docs)) :
    /\ list = Permute(jobListOf(docs), p)
    /\ \A i, j \in 1..Len(docs) : i < j =>
         LET a == DayOf(list[i])
             b == DayOf(list[j])
         IN /\ (a >= 0 /\ b >= 0) => a >= b
            /\ a = b => p[i] < p[j]

\* C1: after the snapshot listener processes a snapshot, the jobs list is the
\* snapshot's documents sorted by appliedDate descending, documents with equal
\* or unparsable dates in the order the snapshot has them.
C1_SortedBySnapshot ==
  [][\A i \in 1..Len(subs) :
       SnapshotStep(i) => InDateOrder(jobs', store[subs[i].uid])]_vars

\* C2: after every processed snapshot the ids of the jobs list are exactly the
\* ids of that snapshot, one entry per document: nothing of an earlier snapshot
\* is carried over, so a document deleted from the store is gone from the list
\* once a snapshot without it is processed.
C2_RebuiltFromSnapshot ==
  [][\A i \in 1..Len(subs) :
       SnapshotStep(i) =>
         /\ Len(jobs') = Len(store[subs[i].uid])
         /\ Ids(jobs') = Ids(store[subs[i].uid])]_vars

\* C2 witness: document 1 of a two-document collection was deleted, and the
\* snapshot after the delete was processed: the list holds document 2 alone.
C2_Witness ==
  /\ last.op = "snapshotNext"
  /\ userId = ProviderUid
  /\ Ids(store[ProviderUid]) = { 2 }
  /\ Ids(jobs) = { 2 }

\* number of calls of fn among the calls in flight
InFlight(calls, fn) == Cardinality({ k \in 1..Len(calls) : calls[k].fn = fn })

C5_DeleteOnlyConfirmed ==
  [][/\ InFlight(pending', "deleteDoc") > InFlight(pending, "deleteDoc")
          => last' = Act("handleDeleteJob", "confirmed")
     /\ last' = Act("handleDeleteJob", "declined") => pending' = pending]_vars

\* C5 witness: with db and userId available the confirmation of a Delete was
\* declined, and no call is in flight.
C5_Witness ==
  /\ last = Act("handleDeleteJob", "declined")
  /\ ~notReady
  /\ jobs # << >>
  /\ pending = << >>

\* C6: without a configuration there is never a sign-in attempt, an identity
\* listener, a subscription or a store call, and db and userId stay null.
C6_NoConfigNoDataOperation ==
  ~firebaseConfig =>
    /\ signIn = "none"
    /\ authListener.state = "none"
    /\ subs = << >>
    /\ pending = << >>
    /\ db = NULL /\ userId = NULL /\ auth = NULL

\* C6 witness: without a configuration the effect has run, the loading screen is
\* gone, and the user filled in and submitted the form.
C6_Witness ==
  /\ ~firebaseConfig
  /\ phase = "mounted" /\ ~loading
  /\ last = Act("handleAddJob", "not ready")

\* C7: once the sign-in has failed, userId stays null, no subscription is
\* opened and no store call is issued (the provider never has a user after a
\* failed sign-in, so no positive identity event can follow).
C7_SignInFailureStaysIdle ==
  signIn = "rejected" =>
    /\ userId = NULL
    /\ subs = << >>
    /\ pending = << >>

\* C8: the jobs list changes in no step but the snapshot listener's: not in a
\* handler, not when a store call resolves, not when it rejects.
C8_ListChangesOnlyInListener ==
  [][jobs' # jobs => last'.op = "snapshotNext"]_vars

\* C8 witness: an application was added and listed, then deleted; the delete
\* has committed in the store, its snapshot has not been processed yet, and
\* the list still holds the deleted document.
C8_Witness ==
  /\ userId = ProviderUid
  /\ created > 0
  /\ store[ProviderUid] = << >>
  /\ pending = << >>
  /\ Ids(jobs) = { MaxLegacy + 1 }
  /\ last.op # "snapshotNext"

\* the handlers of the three operations
Handlers == { "handleAddJob", "handleDeleteJob", "handleUpdateStatus" }

C10_ListenersClosedOnce ==
  /\ authListener.unsubs = (IF authListener.state = "closed" THEN 1 ELSE 0)
  /\ \A i \in 1..Len(subs) :
       /\ subs[i].unsubs = (IF subs[i].open THEN 0 ELSE 1)
       /\ i < Len(subs) => ~subs[i].open
       /\ (subDeps = << db, userId >> /\ subs[i].open) => subs[i].uid = userId
  /\ phase = "unmounted" =>
       /\ authListener.state # "open"
       /\ \A i \in 1..Len(subs) : ~subs[i].open /\ subs[i].unsubs = 1

\* C10 witness: the provider lost the user it had signed in, the listener has
\* reported it and the subscription effect has run: the subscription that was
\* open for that user is closed, once.
C10_Witness ==
  /\ signIn = "resolved" /\ currentUser = NULL
  /\ userId # ProviderUid
  /\ subDeps = << db, userId >>
  /\ \E i \in 1..Len(subs) :
       subs[i].uid = ProviderUid /\ ~subs[i].open /\ subs[i].unsubs = 1

\* the subscriptions that are open
OpenSubs == { i \in 1..Len(subs) : subs[i].open }

C12_ListOfCurrentUserOnly ==
  \A k \in 1..Len(jobs) :
    \A u \in UserIds \ { userId } : jobs[k].id \notin Ids(store[u])

\* the step is the error-callback of subscription i
ErrorStep(i) ==
  /\ i \in 1..Len(subs) /\ Len(subs') = Len(subs)
  /\ subs[i].open /\ ~subs[i].errored /\ subs'[i].errored

\* C13: the error-callback of a subscription leaves the jobs list as it is, and
\* while a failed subscription is the open one the list does not change any
\* more: it stays the list of the last processed snapshot.
C13_ErrorKeepsLastList ==
  [][\A i \in 1..Len(subs) :
       /\ ErrorStep(i) => jobs' = jobs
       /\ (subs[i].open /\ subs[i].errored) => jobs' = jobs]_vars

\* C13 witness: the subscription of the current user failed after a snapshot
\* with documents was processed, the collection has changed since, and the
\* list still is the one of that snapshot.
C13_Witness ==
  \E i \in 1..Len(subs) :
    /\ subs[i].open /\ subs[i].errored
    /\ subs[i].uid = userId
    /\ jobs # << >>
    /\ Ids(jobs) # Ids(store[userId])
    /\ pending = << >>

\* C14: a step issues at most one store call, and only a handler issues one
\* (a refused call is not issued again); the catch of a refused call takes
\* that call out of flight and leaves the jobs list, the store and the
\* snapshots owed as they are; the store changes only by committing the oldest
\* call in flight, so a refused write is in no later snapshot and no later list.
C14_OneCallNoRetry ==
  [][/\ Len(pending') > Len(pending) =>
          /\ last'.op \in Handlers
          /\ pending' = Append(pending, pending'[Len(pending')])
     /\ last'.op = "catch" =>
          /\ pending # << >> /\ pending' = Tail(pending)
          /\ last'.val = Head(pending).fn
          /\ jobs' = jobs /\ store' = store /\ subs' = subs
     /\ store' # store =>
          /\ pending # << >> /\ pending' = Tail(pending)
          /\ \E coll \in committed(Head(pending)) :
               store' = [store EXCEPT ![Head(pending).uid] = coll]]_vars

\* C14 witness: the addDoc of a filled-in form was refused: the catch has
\* run, nothing is in flight, the collection and the list are empty and the
\* open subscription is owed no snapshot.
C14_Witness ==
  /\ last = Act("catch", "addDoc")
  /\ userId = ProviderUid
  /\ pending = << >> /\ created = 0
  /\ store[ProviderUid] = << >> /\ jobs = << >>
  /\ subs # << >>
  /\ subs[Len(subs)].open /\ subs[Len(subs)].synced

\* the call issued last
Issued(calls) == calls[Len(calls)]

\* C15: an invocation of handleUpdateStatus with db, userId and a status
\* issues exactly one call: an updateDoc on the document of a listed id under
\* the path of the current userId, with the payload {status: newStatus} and
\* nothing else; and in every step a document that stays in its collection
\* keeps every field but status.
C15_UpdateTouchesStatusOnly ==
  [][/\ (last'.op = "handleUpdateStatus" /\ ~notReady /\ last'.val # "") =>
          /\ pending' = Append(pending, Issued(pending'))
          /\ Issued(pending').fn = "updateDoc"
          /\ collectionPath(Issued(pending').uid) = collectionPath(userId)
          /\ Issued(pending').id \in Ids(jobs)
          /\ Issued(pending').data = [status |-> last'.val]
     /\ \A u \in UserIds :
          \A i \in 1..Len(store[u]) : \A j \in 1..Len(store'[u]) :
            store[u][i].id = store'[u][j].id =>
              [store'[u][j] EXCEPT !.status = store[u][i].status] = store[u][i]]_vars

\* C15 witness: the status of an added application was changed and the update
\* has committed: the document has the new status and the company, title,
\* dates and texts it was created with.
C15_Witness ==
  /\ pending = << >>
  /\ \E k \in 1..Len(store[ProviderUid]) :
       LET d == store[ProviderUid][k]
       IN /\ d.status = STATUS_OPTIONS[3].value
          /\ d.company = "Acme" /\ d.title = "Acme"
          /\ d.appliedDate = Ts(0) /\ d.createdAt = Ts(0)
          /\ d.notes = "" /\ d.postingLink = "" /\ d.documentsUsed = ""

\* C16: a submission of a form with a company, a title and a date while db and
\* userId are set runs handleAddJob, which issues exactly one call: an addDoc
\* on the collection path of the current userId carrying the form's company,
\* title, status, notes, postingLink and documentsUsed, the form's date as a
\* Timestamp and createdAt = now; the jobs list is not changed. The form's
\* status is Applied from the start and after every reset, and changes only
\* to an option the user picks.
C16_AddIssuesOneAdd ==
  [][/\ (last'.op \in { "submitForm", "handleAddJob" } /\ formValid /\ ~notReady)
          => last' = Act("handleAddJob", "addDoc")
     /\ last' = Act("handleAddJob", "addDoc") =>
          /\ pending' = Append(pending, Issued(pending'))
          /\ Issued(pending').fn = "addDoc"
          /\ collectionPath(Issued(pending').uid) = collectionPath(userId)
          /\ Issued(pending').data =
               [company |-> newJob.company, title |-> newJob.title,
                status |-> newJob.status, notes |-> newJob.notes,
                postingLink |-> newJob.postingLink,
                documentsUsed |-> newJob.documentsUsed,
                appliedDate |-> Ts(newJob.appliedDate.v * TicksPerDay),
                createdAt |-> Ts(clock)]
          /\ jobs' = jobs
     /\ newJob'.status # newJob.status =>
          \/ newJob'.status = "Applied" /\ newJob' = emptyForm
          \/ /\ newJob'.status \in StatusValues
             /\ newJob' = [newJob EXCEPT !.status = newJob'.status]]_vars

\* C16 witness: after the clock advanced, a form with company and title, the
\* date of day 1 and the status untouched was submitted: the addDoc in flight
\* carries status Applied and createdAt of the submission, and the list is
\* empty.
C16_Witness ==
  /\ last = Act("handleAddJob", "addDoc")
  /\ clock > 0
  /\ Len(pending) = 1
  /\ pending[1].fn = "addDoc" /\ pending[1].uid = userId
  /\ pending[1].data.company = "Acme" /\ pending[1].data.title = "Acme"
  /\ pending[1].data.status = "Applied"
  /\ pending[1].data.appliedDate = Ts(TicksPerDay)
  /\ pending[1].data.createdAt = Ts(clock)
  /\ jobs = << >>

\* the subscription of the current userId is open and has not failed
LiveSub ==
  /\ phase = "mounted" /\ ~notReady
  /\ subDeps = << db, userId >>
  /\ OpenSubs # { }
  /\ \A i \in OpenSubs : subs[i].uid = userId /\ ~subs[i].errored

\* C17: under fair snapshot delivery, from some point on the jobs list is,
\* whenever the subscription of the current userId is live, the collection of
\* the current userId as the store has it, in the listener's order: a write
\* that committed is in the list after finitely many steps and the list does
\* not stay behind the store.
C17_ListCatchesUp ==
  <>[](LiveSub => jobs \in ArraySort(jobListOf(store[userId])))

\* C17 witness: the status of a listed document was changed, the update has
\* committed, its snapshot has been processed and the list shows the new
\* status.
C17_Witness ==
  /\ LiveSub
  /\ pending = << >>
  /\ jobs # << >>
  /\ jobs \in ArraySort(jobListOf(store[userId]))
  /\ \E k \in 1..Len(jobs) : jobs[k].status = STATUS_OPTIONS[3].value

\* the styles of the options, and the neutral one
Styles ==
  { STATUS_OPTIONS[i].color : i \in 1..Len(STATUS_OPTIONS) }
    \cup { "bg-gray-100 text-gray-800" }

\* C18: whatever the status of a rendered card (an option, another text, the
\* empty text, absent), getStatusColor returned a style: the option's own
\* style when the status is an option, the neutral style otherwise.
C18_StatusColorTotal ==
  last.op = "getStatusColor" =>
    /\ last.val \in Styles
    /\ \A i \in 1..Len(STATUS_OPTIONS) :
         last.status = STATUS_OPTIONS[i].value => last.val = STATUS_OPTIONS[i].color
    /\ last.status \notin StatusValues => last.val = "bg-gray-100 text-gray-800"

\* C18 witness: a card whose document has no status was rendered in the
\* neutral style.
C18_Witness ==
  /\ last.op = "getStatusColor"
  /\ last.status = NULL
  /\ last.val = "bg-gray-100 text-gray-800"

\* C19: userId is only ever null or an identity the provider issued: the
\* random identifier of the listener's else-branch is never assigned.
C19_ProviderIdentityOnly ==
  /\ userId \in { NULL, ProviderUid }
  /\ uuids = 0

\* C20: loading is true until the first effect has run; a step changes it only
\* from true to false, and only the init effect without a configuration, a
\* processed snapshot or a subscription error does; while it is true the list
\* is empty, the modal is closed, no handler runs and no call is in flight.
C20_LoadingMonotone ==
  [][/\ phase = "rendered" => loading
     /\ loading' # loading =>
          /\ loading /\ ~loading'
          /\ \/ phase = "rendered" /\ ~firebaseConfig
             \/ last'.op = "snapshotNext"
             \/ \E i \in 1..Len(subs) : ErrorStep(i)
     /\ loading =>
          /\ jobs = << >> /\ ~showAddModal /\ pending = << >>
          /\ last'.op \notin Handlers \cup { "submitForm", "getStatusColor" }
          /\ showAddModal' = showAddModal /\ newJob' = newJob]_vars

\* C20 witness: after the first snapshot the provider dropped its user, the
\* identity changed and a new subscription was opened that has delivered
\* nothing yet: loading is still false.
C20_Witness ==
  /\ ~loading
  /\ signIn = "resolved" /\ currentUser = NULL
  /\ userId \notin { NULL, ProviderUid }
  /\ subDeps = << db, userId >>
  /\ OpenSubs = { Len(subs) }
  /\ ~subs[Len(subs)].synced /\ ~subs[Len(subs)].errored

====
